---- MODULE Spec2Model ----
(***************************************************************************)
(* The invitation lifecycle of todo-hero-hub: createInvitation,            *)
(* verifyInvitationToken, signUp and deleteInvitation of lib/supabase      *)
(* (the version kept in src/src/lib/constants.ts), run against the         *)
(* invitations table and the auth provider, with the components that call  *)
(* them and the role and task functions of the same library.               *)
(*                                                                         *)
(* Time is counted in days and observed once per invitation lifetime, so   *)
(* that a row is seen before, exactly at and after its expires_at.  A      *)
(* token is a sequence of characters, so that String.prototype.trim is     *)
(* modelled by what it does.                                               *)
(*                                                                         *)
(* Spec calls the library directly; SpecRows starts it on arbitrary        *)
(* tables and SpecClock lets the clock move during a verification;         *)
(* SpecAuth runs AuthForm in several browser sessions and SpecLogin runs   *)
(* it in one browser with sign-in and the routes of App; SpecAdmin and     *)
(* SpecList run InvitationForm and InvitationList of the administrator's   *)
(* page, the former with a store clock that may run ahead of the           *)
(* browser's; SpecUsers runs the Users panel; SpecTasks runs getTasks and  *)
(* createTask for callers of either role.                                  *)
(***************************************************************************)
EXTENDS Integers, Sequences, FiniteSets, TLC

VARIABLES
    invitations,  \* the rows of the invitations table
    nextId,       \* the next identifier the store hands out
    now,          \* the wall clock
    accounts,     \* the accounts the auth provider holds
    pend,         \* per session calling signUp: the email and token of a signUp
                  \* awaiting its update, or Idle
    ret,          \* the last call of the invitation library and what it returned;
                  \* NoCall once anything else has happened since
    issued,       \* history, per existing row: the email and role passed to createInvitation
    registered,   \* history: existing rows whose email and token a completed signUp
                  \* that created its account carried
    marked,       \* history: existing rows a signUp's update was applied to
    skew,         \* how far the store's clock, which stamps created_at, is ahead
                  \* of the clock the client reads
    form,         \* per browser session: the state of its AuthForm
    inviteForm,   \* the administrator's InvitationForm
    panel,        \* the administrator's InvitationList
    usersPage,    \* the administrator's Users panel
    profiles,     \* the rows of the user_profiles table
    tasks         \* the rows of the tasks table

\* the state of the components, which the library does not touch
ui == <<form, inviteForm, panel, usersPage>>

\* the tables the invitation lifecycle does not touch
data == <<profiles, tasks>>

\* the state of the invitation lifecycle, which most handlers of the
\* components do not touch
lifecycle ==
    <<invitations, nextId, now, accounts, pend, issued, registered, marked, skew>>

vars == <<invitations, nextId, now, accounts, pend, ret, issued, registered,
          marked, skew, ui, data>>

----------------------------------------------------------------------------
(* Bounds of the model *)

MaxTicks == 2
MaxRows == 2
MaxIds == 2
MaxSessions == 2

(* Program constants *)

InvitationDays == 7

----------------------------------------------------------------------------
(* Value sets *)

\* the invitations an administrator asks for: an email and a role
Requests == {<<"a@x.com", "admin">>, <<"b@x.com", "user">>}
AdminId == "admin-1"
NoUser == "none"
NoRow == [id |-> 0]
Idle == <<"idle">>
Null == "null"
\* the null of a token state: tokens are sequences of characters
NoToken == << >>
\* the browser sessions; the library alone is exercised from the first one
Sessions == 1 .. MaxSessions
\* the offsets of the store's clock the model considers
Skews == {0, 1}

\* what generateToken can return: non-empty strings of base-36 digits
GenTokens == {<<"k">>, <<"m">>}
\* what a caller can present: issued-looking tokens, the empty string,
\* whitespace only, a token padded with whitespace
PresentedTokens == GenTokens \cup {<< >>, <<" ">>, <<" ", "k">>}
\* the registrations attempted: an email and the optional token argument of
\* signUp (<< >> stands for a missing one)
SignUps ==
    {<<"a@x.com", <<"k">>>>, <<"b@x.com", <<"k">>>>, <<"a@x.com", << >>>>}

----------------------------------------------------------------------------
(* String.prototype.trim *)

RECURSIVE TrimLeft(_)
TrimLeft(s) ==
    IF s = << >> THEN << >>
    ELSE IF Head(s) = " " THEN TrimLeft(Tail(s)) ELSE s

RECURSIVE TrimRight(_)
TrimRight(s) ==
    IF s = << >> THEN << >>
    ELSE IF s[Len(s)] = " " THEN TrimRight(SubSeq(s, 1, Len(s) - 1)) ELSE s

Trim(s) == TrimRight(TrimLeft(s))

\* a faulty variant that forgets to trim
EmptyTokenMutant(token) == token = << >>
\* if (!token || token.trim() === '')
EmptyToken(token) == token = << >> \/ Trim(token) = << >>

----------------------------------------------------------------------------
(* The invitations table *)

\* the rows carrying a token
RowsWithToken(rows, token) == {r \in rows : r.token = token}

\* a store without the constraint
TokenUniqueMutant(rows, token) == TRUE
\* the UNIQUE constraint on invitations.token
TokenUnique(rows, token) == RowsWithToken(rows, token) = {}

\* the row an insert stores: the fields the client passes, and the store's
\* defaults for id, created_at and used
StoredRow(id, email, token, role, creator, expiresAt, storeTime) ==
    [id |-> id, email |-> email, token |-> token, role |-> role,
     created_by |-> creator, created_at |-> storeTime,
     expires_at |-> expiresAt, used |-> FALSE]

\* a faulty variant that compares the trimmed token
QueryByTokenMutant(rows, token) == {r \in rows : r.token = Trim(token)}
\* the rows select('*').eq('token', token) matches: the token is compared as
\* it was passed, untrimmed
QueryByToken(rows, token) == {r \in rows : r.token = token}

\* every order in which the store may return a set of rows
Orderings(S) ==
    {q \in [1 .. Cardinality(S) -> S] : \A r \in S : \E i \in DOMAIN q : q[i] = r}

\* the readings of the n new Date() calls of one verification, whose
\* synchronous part runs within one instant t of the clock
ClockReads(t, n) == {[i \in 1 .. n |-> t]}

\* the readings of the n new Date() calls of a verification during which the
\* clock, at t when the call starts, moves or is set by the offsets D
DriftingReads(t, n, D) ==
    IF D = {0} THEN ClockReads(t, n)
    ELSE [1 .. n -> {t + d : d \in D} \cap (0 .. MaxTicks * InvitationDays)]

Min(S) == CHOOSE x \in S : \A y \in S : x <= y

----------------------------------------------------------------------------
(* verifyInvitationToken: the resolution of the rows the query returned *)

\* const isUsed = inv.used === true
isUsed(inv) == inv.used = TRUE

\* a faulty variant whose second pass gives a row 7 more days
ExpiredIdxMutant(rows, clk) ==
    {i \in 1 .. Len(rows) :
        rows[i].expires_at + InvitationDays < clk[Len(rows) + i]}
\* a faulty variant that never finds a row expired
isExpiredMutant(inv, t) == FALSE
\* const isExpired = new Date(inv.expires_at) < new Date()
isExpired(inv, t) == inv.expires_at < t

\* invitations.find(inv => !isUsed && !isExpired): row i is tested against the
\* i-th clock reading
ValidIdx(rows, clk) ==
    {i \in 1 .. Len(rows) : ~isUsed(rows[i]) /\ ~isExpired(rows[i], clk[i])}

\* invitations.find(inv => inv.used === true)
UsedIdx(rows) == {i \in 1 .. Len(rows) : rows[i].used = TRUE}

\* invitations.find(inv => new Date(inv.expires_at) < new Date()): the second
\* pass over the rows, with a fresh clock reading per row
ExpiredIdx(rows, clk) ==
    {i \in 1 .. Len(rows) : isExpired(rows[i], clk[Len(rows) + i])}

Failure(reason) == [result |-> reason, row |-> NoRow]

\* a faulty variant that asks expired before used
WhyInvalidMutant(rows, clk) ==
    IF ExpiredIdx(rows, clk) # {} THEN Failure("expired")
    ELSE IF UsedIdx(rows) # {} THEN Failure("already_used")
    ELSE Failure("invalid")
\* the branch taken when no row is valid: used is asked before expired
WhyInvalid(rows, clk) ==
    IF UsedIdx(rows) # {} THEN Failure("already_used")
    ELSE IF ExpiredIdx(rows, clk) # {} THEN Failure("expired")
    ELSE Failure("invalid")

\* a variant that asks used and expired before it looks for a valid row
ResolveMutant(rows, clk) ==
    IF Len(rows) = 0 THEN Failure("not_found")
    ELSE IF UsedIdx(rows) # {} THEN Failure("already_used")
    ELSE IF ExpiredIdx(rows, clk) # {} THEN Failure("expired")
    ELSE [result |-> "success", row |-> rows[1]]
\* the resolution of the rows the query returned: no rows, a valid row, or the
\* reason why none is valid
Resolve(rows, clk) ==
    IF Len(rows) = 0 THEN Failure("not_found")
    ELSE IF ValidIdx(rows, clk) # {}
         THEN [result |-> "success", row |-> rows[Min(ValidIdx(rows, clk))]]
         ELSE WhyInvalid(rows, clk)

\* a faulty variant that takes a failed query for an unknown token
QueryFailureMutant(outcome) == Failure("not_found")
\* the reason returned when the query did not deliver rows: an error result is
\* answered by the if (error) branch, an exception by the catch block
QueryFailure(outcome) ==
    IF outcome = "error" THEN Failure("database_error")
    ELSE Failure("unexpected_error")

----------------------------------------------------------------------------
(* Return values *)

Ret(op, token, queried, outcome, res, clk) ==
    [op |-> op, token |-> token, queried |-> queried, outcome |-> outcome,
     result |-> res.result, row |-> res.row, clk |-> clk]

Plain(op, result) == Ret(op, << >>, FALSE, "none", Failure(result), << >>)

NoCall == Plain("none", "none")

\* what getInvitations returns, or that it threw
Listing(outcome, result, rows) ==
    [op |-> "getInvitations", token |-> << >>, queried |-> TRUE,
     outcome |-> outcome, result |-> result, row |-> NoRow, clk |-> << >>,
     rows |-> rows]

\* what deleteInvitation(id) returns, or that it threw; row is the row that
\* had the id before the call, if any
Deletion(id, outcome, result, row) ==
    [op |-> "deleteInvitation", token |-> << >>, queried |-> TRUE,
     outcome |-> outcome, result |-> result, row |-> row, clk |-> << >>,
     id |-> id]

----------------------------------------------------------------------------
(* The components' initial state *)

\* the null of a link state: links are sequences too
NoLink == << >>
\* no invitation email is being sent
NoSend == [email |-> Null, role |-> Null, token |-> NoToken]

\* no sign-in is awaiting its response
NoSignIn == [email |-> Null]

\* a browser session.  AuthForm: its useState values (isLoading among them),
\* the email field of its login form, the last toast, the tokens its effect is
\* verifying, and as
\* history the verifications that succeeded in this instance and what set the
\* mode last.  App and the auth client: the route shown, the user of the
\* session, App's authenticated state, whether an auth state change awaits
\* App's callback, and the sign-in whose response handleLoginSubmit awaits
FormInit ==
    [mode |-> "login", invitationToken |-> NoToken, invitationEmail |-> Null,
     invitationError |-> Null, loginEmail |-> "", route |-> "/login",
     toast |-> Null, isLoading |-> FALSE, verifying |-> {}, verified |-> {},
     via |-> "none", user |-> Null, authenticated |-> FALSE, authEvent |-> FALSE,
     signingIn |-> NoSignIn]

\* InvitationForm: the link it shows, the last toast, and the result of
\* createInvitation whose email is being sent
InviteFormInit == [invitationLink |-> NoLink, toast |-> Null, sending |-> NoSend]

\* InvitationList: the rows it shows, the last toast, the calls of
\* handleDeleteInvitation that await their response, each with the rows its
\* render showed, and as history the ids whose deletion succeeded
PanelInit ==
    [invitations |-> << >>, toast |-> Null, deleting |-> {}, deleted |-> {}]

\* a profile of the user_profiles table
Profile(id, email, role) == [id |-> id, email |-> email, role |-> role]
NoProfile == [id |-> Null]
OtherId == "user-2"

\* Users: its useState values and the last toast
UsersInit ==
    [users |-> {}, editingUser |-> NoProfile, selectedRole |-> Null,
     currentUserId |-> Null, toast |-> Null]

UiInit ==
    /\ form = [b \in Sessions |-> FormInit]
    /\ inviteForm = InviteFormInit
    /\ panel = PanelInit
    /\ usersPage = UsersInit

\* the profiles of the administrator who is signed in and of another user
DataInit ==
    /\ profiles = {Profile(AdminId, "admin@x.com", "admin"),
                   Profile(OtherId, "a@x.com", "user")}
    /\ tasks = {}

----------------------------------------------------------------------------
Init ==
    /\ invitations = {}
    /\ nextId = 1
    /\ now = 0
    /\ accounts = {}
    /\ pend = [s \in {Min(Sessions)} |-> Idle]
    /\ ret = NoCall
    /\ issued = {}
    /\ registered = {}
    /\ marked = {}
    /\ skew = 0
    /\ UiInit
    /\ DataInit

\* time passes
Tick ==
    /\ now < MaxTicks * InvitationDays
    /\ now' = now + InvitationDays
    /\ ret' = NoCall
    /\ UNCHANGED <<invitations, nextId, accounts, pend, issued,
                   registered, marked, skew>>

\* a faulty variant that inserts the default role
NewInvitationMutant(id, email, token, role, creator, t, stamp) ==
    StoredRow(id, email, token, "user", creator, t + InvitationDays, stamp)
\* the row createInvitation has the store insert: expiresAt is the client's
\* clock plus 7 days; created_at is not passed, the store stamps it
NewInvitation(id, email, token, role, creator, t, stamp) ==
    StoredRow(id, email, token, role, creator, t + InvitationDays, stamp)

\* the store's clock when the client's reads t
StoreClock(t) == t + skew

\* throw new Error('User not authenticated')
NotAuthenticated == "User not authenticated"
\* the code of the store's unique violation
UniqueViolation == "23505"
\* the errors an insert can fail with: the unique violation when the token is
\* taken, and any other failure of the store
InsertErrors(rows, token) ==
    {"store_error"} \cup (IF TokenUnique(rows, token) THEN {} ELSE {UniqueViolation})

\* a faulty variant that replaces the store's error by one of its own
RethrownMutant(error) == "Failed to create invitation"
\* throw error: the error object the store returned
Rethrown(error) == error

\* createInvitation threw: error is what the store answered, if it was asked,
\* thrown is what the caller catches
CreateThrow(token, queried, outcome, error, thrown) ==
    [op |-> "createInvitation", token |-> token, queried |-> queried,
     outcome |-> outcome, result |-> "throw", row |-> NoRow, clk |-> << >>,
     error |-> error, thrown |-> thrown]

createInvitation(email, role) ==
    \E token \in GenTokens, user \in {NoUser, AdminId} :
        IF user = NoUser
        THEN /\ ret' = CreateThrow(<< >>, FALSE, "none", Null, NotAuthenticated)
             /\ UNCHANGED <<invitations, nextId, now, accounts, pend,
                            issued, registered, marked, skew>>
        ELSE \/ /\ TokenUnique(invitations, token)
                /\ Cardinality(invitations) < MaxRows
                /\ nextId <= MaxIds
                /\ invitations' = invitations \cup
                       {NewInvitation(nextId, email, token, role, user, now,
                                      StoreClock(now))}
                /\ nextId' = nextId + 1
                /\ issued' = issued \cup
                       {[id |-> nextId, email |-> email, role |-> role]}
                /\ ret' = Ret("createInvitation", token, TRUE, "ok",
                              [result |-> "success",
                               row |-> NewInvitation(nextId, email, token, role,
                                                     user, now, StoreClock(now))],
                              << >>)
                /\ UNCHANGED <<now, accounts, pend, registered, marked, skew>>
             \/ /\ \E error \in InsertErrors(invitations, token) :
                       ret' = CreateThrow(token, TRUE, "error", error,
                                          Rethrown(error))
                /\ UNCHANGED <<invitations, nextId, now, accounts,
                               pend, issued, registered, marked, skew>>

\* select('*').order('created_at', { ascending: false }): every order of the
\* rows in which created_at does not increase
NewestFirst(rows) ==
    {q \in Orderings(rows) :
        \A i \in 1 .. Len(q) - 1 : q[i].created_at >= q[i + 1].created_at}

\* what getInvitations makes of a query that delivered no rows: an error
\* result is logged and answered with the empty list, an exception propagates
ListFailure(outcome) ==
    IF outcome = "error" THEN Listing(outcome, "list", << >>)
    ELSE Listing(outcome, "throw", << >>)

getInvitations ==
    /\ \E outcome \in {"ok", "error", "throw"} :
        IF outcome = "ok"
        THEN \E q \in NewestFirst(invitations) : ret' = Listing(outcome, "list", q)
        ELSE ret' = ListFailure(outcome)
    /\ UNCHANGED <<invitations, nextId, now, accounts, pend, issued,
                   registered, marked, skew>>

\* a faulty variant that deletes nothing
DeleteByIdMutant(rows, id) == rows
\* delete().eq('id', id)
DeleteById(rows, id) == {r \in rows : r.id # id}

\* the row with an id, or NoRow
RowWithId(rows, id) ==
    IF \E r \in rows : r.id = id THEN CHOOSE r \in rows : r.id = id ELSE NoRow

deleteInvitation(id) ==
    /\ \E ok \in BOOLEAN :
        IF ok
        THEN /\ invitations' = DeleteById(invitations, id)
             /\ issued' = {h \in issued : h.id # id}
             /\ registered' = registered \ {id}
             /\ marked' = marked \ {id}
             /\ ret' = Deletion(id, "ok", "true", RowWithId(invitations, id))
        ELSE /\ UNCHANGED <<invitations, issued, registered, marked>>
             /\ ret' = Deletion(id, "error", "throw", RowWithId(invitations, id))
    /\ UNCHANGED <<nextId, now, accounts, pend, skew>>

\* a faulty variant that consumes the invitation it verifies
AfterVerifyMutant(rows, token) ==
    {IF r.token = token THEN [r EXCEPT !.used = TRUE] ELSE r : r \in rows}
\* what verifyInvitationToken leaves of the table: it only selects
AfterVerify(rows, token) == rows

verifyInvitationTokenDuring(token, D) ==
    /\ IF EmptyToken(token)
       THEN /\ ret' = Ret("verify", token, FALSE, "none", Failure("not_found"),
                          << >>)
            /\ UNCHANGED <<invitations, now>>
       ELSE \E outcome \in {"ok", "error", "throw"} :
              IF outcome = "ok"
              THEN \E rows \in Orderings(QueryByToken(invitations, token)) :
                   \E clk \in DriftingReads(now, 2 * Len(rows), D) :
                      /\ ret' = Ret("verify", token, TRUE, outcome,
                                    Resolve(rows, clk), clk)
                      /\ now' = IF clk = << >> THEN now ELSE clk[Len(clk)]
                      /\ invitations' = AfterVerify(invitations, token)
              ELSE /\ ret' = Ret("verify", token, TRUE, outcome,
                                 QueryFailure(outcome), << >>)
                   /\ UNCHANGED <<invitations, now>>
    /\ UNCHANGED <<nextId, accounts, pend, issued, registered, marked, skew>>

\* a verification during which the clock stands
verifyInvitationToken(token) == verifyInvitationTokenDuring(token, {0})

\* the account the auth provider creates: its email and, in its metadata, the
\* invitation_token signUp passed and requires_password_setup: token ? true :
\* false
Account(email, token) ==
    [email |-> email, token |-> token, requires_password_setup |-> token # << >>]

\* an auth provider that accepts any email
EmailFreeMutant(accts, email) == TRUE
\* the auth provider refuses an email that has an account
EmailFree(accts, email) == \A a \in accts : a.email # email

\* a faulty variant that marks the invitation whatever the auth provider said
MarksInvitationMutant(token, outcome) == token # << >>
\* if (token && !signupResponse.error && signupResponse.data?.user)
MarksInvitation(token, outcome) == token # << >> /\ outcome = "user"

\* signUp, first await: the auth provider's create-account call, which returns
\* a user, an error or neither
signUpCreateAccount(s, email, token) ==
    /\ pend[s] = Idle
    /\ \E outcome \in {"user", "error", "nouser"} :
        /\ outcome = "user" => EmailFree(accounts, email)
        /\ accounts' = IF outcome = "user"
                       THEN accounts \cup {Account(email, token)}
                       ELSE accounts
        /\ IF MarksInvitation(token, outcome)
           THEN /\ pend' = [pend EXCEPT ![s] = <<email, token>>]
                /\ ret' = Plain("signUpCreateAccount", outcome)
           ELSE /\ pend' = pend
                /\ ret' = Plain("signUp", outcome)
    /\ UNCHANGED <<invitations, nextId, now, issued, registered, marked, skew>>

\* a faulty variant whose update has no filter
MarkUsedEveryMutant(rows, token) == {[r EXCEPT !.used = TRUE] : r \in rows}
\* a faulty variant that flips the flag
MarkUsedToggleMutant(rows, token) ==
    {IF r.token = token THEN [r EXCEPT !.used = ~r.used] ELSE r : r \in rows}
\* a faulty variant whose filter matches the other rows
MarkUsedMutant(rows, token) ==
    {IF r.token # token THEN [r EXCEPT !.used = TRUE] ELSE r : r \in rows}
\* update({ used: true }).eq('token', token)
MarkUsed(rows, token) ==
    {IF r.token = token THEN [r EXCEPT !.used = TRUE] ELSE r : r \in rows}

\* the row the update of a signUp addresses, as it is before the update
UpdateTarget(rows, token) ==
    IF RowsWithToken(rows, token) = {} THEN NoRow
    ELSE CHOOSE r \in RowsWithToken(rows, token) : TRUE

\* a faulty variant that fails the registration when the update fails
SignUpResponseMutant(outcome) == IF outcome = "ok" THEN "user" ELSE "error"
\* return signupResponse: the response of the create-account call, whatever
\* came of the update
SignUpResponse(outcome) == "user"

\* signUp, second await: the update of the invitation, whose result is ignored
signUpMarkUsed(s) ==
    /\ pend[s] # Idle
    /\ LET email == pend[s][1]
           token == pend[s][2]
       IN \E outcome \in {"ok", "error", "throw"} :
            /\ invitations' = IF outcome = "ok"
                              THEN MarkUsed(invitations, token)
                              ELSE invitations
            /\ marked' = IF outcome = "ok"
                         THEN marked \cup
                                {r.id : r \in RowsWithToken(invitations, token)}
                         ELSE marked
            /\ registered' = registered \cup
                   {r.id : r \in {x \in RowsWithToken(invitations, token) :
                                     x.email = email}}
            /\ ret' = Ret("signUp", token, TRUE, outcome,
                          [result |-> SignUpResponse(outcome),
                           row |-> UpdateTarget(invitations, token)], << >>)
    /\ pend' = [pend EXCEPT ![s] = Idle]
    /\ UNCHANGED <<nextId, now, accounts, issued, skew>>

\* the library called directly, from one session, with no component mounted
Next ==
    \/ Tick /\ UNCHANGED <<ui, data>>
    \/ \E q \in Requests : createInvitation(q[1], q[2]) /\ UNCHANGED <<ui, data>>
    \/ getInvitations /\ UNCHANGED <<ui, data>>
    \/ \E id \in 1 .. MaxIds : deleteInvitation(id) /\ UNCHANGED <<ui, data>>
    \/ \E t \in PresentedTokens : verifyInvitationToken(t) /\ UNCHANGED <<ui, data>>
    \/ \E s \in DOMAIN pend, u \in SignUps :
           signUpCreateAccount(s, u[1], u[2]) /\ UNCHANGED <<ui, data>>
    \/ \E s \in DOMAIN pend : signUpMarkUsed(s) /\ UNCHANGED <<ui, data>>

Spec == Init /\ [][Next]_vars

----------------------------------------------------------------------------
(* AuthForm: the registration of invitees, each in a browser session of     *)
(* their own, once the administrator has issued an invitation.              *)

\* the token parameters of the URLs followed: if (token) passes the non-empty
UrlTokens == PresentedTokens \ {<< >>}

AccountCreated == "Account created successfully. Please sign in."

\* the message shown for the reason a verification failed with
VerifyMessage(reason) ==
    CASE reason = "already_used" -> "This invitation has already been used"
      [] reason = "expired" -> "This invitation has expired"
      [] reason = "not_found" -> "Invalid invitation token"
      [] reason = "database_error" -> "Error accessing invitation database"
      [] OTHER -> "Invalid or expired invitation"

\* the form once verifyInvitationToken(cleanToken) has returned r
AfterVerifyToken(f, cleanToken, r) ==
    IF r.result # "success"
    THEN [f EXCEPT !.invitationError = VerifyMessage(r.result),
                   !.toast = VerifyMessage(r.result),
                   !.invitationToken = NoToken]
    ELSE [f EXCEPT !.invitationError = Null,
                   !.invitationToken = cleanToken,
                   !.invitationEmail = r.row.email,
                   !.mode = "set-password",
                   !.loginEmail = r.row.email,
                   !.toast = "Please set your password to complete registration",
                   !.verified = @ \cup {<<cleanToken, r.row.email>>},
                   !.via = "invitation"]

\* an invitation link is opened: the page loads, AuthForm mounts in its
\* initial state and its effect trims and verifies the token of the URL
verifyToken(b, token) ==
    /\ pend[b] = Idle
    /\ verifyInvitationToken(Trim(token))
    /\ form' = [form EXCEPT ![b] = AfterVerifyToken(FormInit, Trim(token), ret')]
    /\ UNCHANGED <<inviteForm, panel, usersPage, data>>

\* const email = invitationEmail || loginForm.getValues('email')
SubmitEmail(f) ==
    IF f.invitationEmail # Null THEN f.invitationEmail ELSE f.loginEmail

\* the form once signUp has returned: if (error) throw error, else success
AfterSignUp(f, email, result) ==
    IF result = "error"
    THEN [f EXCEPT !.toast = "An error occurred"]
    ELSE [f EXCEPT !.toast = AccountCreated, !.mode = "login",
                   !.loginEmail = email]

\* AuthForm mounts in the browser session of f: a new instance, which is not
\* loading; what the old instance awaits no longer sets its state
Mount(f) ==
    [FormInit EXCEPT !.toast = f.toast, !.user = f.user,
                     !.authenticated = f.authenticated,
                     !.authEvent = f.authEvent,
                     !.signingIn = f.signingIn]

\* the Routes of App for /login and /dashboard: each redirects to the other
\* one according to authenticated; Login, and AuthForm in it, mounts anew
Navigate(f, path) ==
    IF f.authenticated THEN [Mount(f) EXCEPT !.route = "/dashboard"]
    ELSE Mount(f)

\* updateUser({ password, data: { requires_password_setup: false } })
ClearSetup(accts, email) ==
    {IF a.email = email THEN [a EXCEPT !.requires_password_setup = FALSE] ELSE a
        : a \in accts}

\* the form once updatePasswordAfterInvitation has returned
AfterUpdatePassword(f, outcome) ==
    IF outcome = "error"
    THEN [f EXCEPT !.toast = "An error occurred"]
    ELSE Navigate([f EXCEPT !.toast = "Password updated successfully"],
                  "/dashboard")

\* handlePasswordSubmit up to the return of signUp's create-account call (or
\* of updatePasswordAfterInvitation); the button is disabled while it runs
handlePasswordSubmit(b) ==
    /\ form[b].mode = "set-password"
    /\ form[b].route = "/login"
    /\ pend[b] = Idle
    /\ ~form[b].isLoading
    /\ LET f == form[b]
           email == SubmitEmail(f)
       IN IF f.invitationEmail = Null /\ f.loginEmail = ""
          THEN /\ form' = [form EXCEPT ![b].toast = "Email information is missing"]
               /\ ret' = NoCall
               /\ UNCHANGED <<invitations, nextId, now, accounts, pend, issued,
                              registered, marked, skew>>
          ELSE IF f.invitationToken # NoToken
          THEN /\ signUpCreateAccount(b, email, f.invitationToken)
               /\ form' = IF pend'[b] = Idle
                          THEN [form EXCEPT ![b] = AfterSignUp(f, email, ret'.result)]
                          ELSE [form EXCEPT ![b].isLoading = TRUE]
          ELSE \E outcome \in {"ok", "error"} :
               /\ f.user = Null => outcome = "error"
               /\ form' = [form EXCEPT ![b] = AfterUpdatePassword(f, outcome)]
               /\ accounts' = IF outcome = "ok" THEN ClearSetup(accounts, f.user)
                              ELSE accounts
               /\ ret' = Plain("updatePasswordAfterInvitation", outcome)
               /\ UNCHANGED <<invitations, nextId, now, pend, issued,
                              registered, marked, skew>>
    /\ UNCHANGED <<inviteForm, panel, usersPage, data>>

\* handlePasswordSubmit from the return of signUp's update to its end
handlePasswordSubmitResume(b) ==
    /\ signUpMarkUsed(b)
    /\ form' = IF form[b].isLoading
               THEN [form EXCEPT ![b] =
                       [AfterSignUp(form[b], pend[b][1], ret'.result)
                          EXCEPT !.isLoading = FALSE]]
               ELSE form
    /\ UNCHANGED <<inviteForm, panel, usersPage, data>>

\* createInvitation('a@x.com', 'admin') has stored the first invitation
InitAuth ==
    /\ invitations = {NewInvitation(1, "a@x.com", <<"k">>, "admin", AdminId, 0, 0)}
    /\ nextId = 2
    /\ now = 0
    /\ accounts = {}
    /\ pend = [b \in Sessions |-> Idle]
    /\ ret = NoCall
    /\ issued = {[id |-> 1, email |-> "a@x.com", role |-> "admin"]}
    /\ registered = {}
    /\ marked = {}
    /\ skew = 0
    /\ UiInit
    /\ DataInit

NextAuth ==
    \/ Tick /\ UNCHANGED <<ui, data>>
    \/ \E b \in Sessions, t \in UrlTokens : verifyToken(b, t)
    \/ \E b \in Sessions : handlePasswordSubmit(b)
    \/ \E b \in Sessions : handlePasswordSubmitResume(b)

SpecAuth == InitAuth /\ [][NextAuth]_vars

----------------------------------------------------------------------------
(* The login page of one browser: AuthForm with its verifications in        *)
(* flight, its sign-in and its links, under the Routes of App, which learns *)
(* of a sign-in by the auth client's state change event.  The invitation of *)
(* a@x.com is open; b@x.com has registered with theirs and has not yet set  *)
(* a password of their own.  The register mode of the form is never         *)
(* entered and is left out.                                                 *)

\* the token parameters of the links opened here
LinkTokens == GenTokens \cup {<<" ", "k">>}

\* the browser that is followed
Browser == Min(Sessions)

\* /login is loaded, with a token parameter or without (<< >>): App reads the
\* session, and Login is shown, its effect verifying the token, unless a user
\* is signed in
openLogin(b, token) ==
    /\ pend[b] = Idle
    /\ form[b].signingIn = NoSignIn
    /\ form' = [form EXCEPT ![b] =
          IF form[b].user # Null
          THEN [FormInit EXCEPT !.user = form[b].user, !.authenticated = TRUE,
                                !.route = "/dashboard"]
          ELSE [FormInit EXCEPT !.verifying =
                   IF token = << >> THEN {} ELSE {Trim(token)}]]
    /\ UNCHANGED <<lifecycle, ret, inviteForm, panel, usersPage, data>>

\* location.search changes under the mounted form: the effect runs again and
\* verifies the new token beside the verifications in flight
searchChanged(b, token) ==
    /\ form[b].route = "/login"
    /\ Trim(token) \notin form[b].verifying
    /\ form' = [form EXCEPT ![b].verifying = @ \cup {Trim(token)},
                            ![b].invitationError = Null]
    /\ UNCHANGED <<lifecycle, ret, inviteForm, panel, usersPage, data>>

\* the response of a verification in flight reaches the form
verifyTokenResume(b, token) ==
    /\ form[b].route = "/login"
    /\ token \in form[b].verifying
    /\ verifyInvitationToken(token)
    /\ form' = [form EXCEPT ![b] =
          AfterVerifyToken([form[b] EXCEPT !.verifying = @ \ {token}], token, ret')]
    /\ UNCHANGED <<inviteForm, panel, usersPage, data>>

\* a faulty variant that forgets the token
BackToLoginMutant(f) ==
    [f EXCEPT !.mode = "login", !.invitationEmail = Null, !.loginEmail = ""]
\* the Back to login link
BackToLogin(f) ==
    [f EXCEPT !.mode = "login", !.invitationToken = NoToken,
              !.invitationEmail = Null, !.loginEmail = ""]

backToLogin(b) ==
    /\ form[b].route = "/login"
    /\ form[b].mode # "login"
    /\ form' = [form EXCEPT ![b] = BackToLogin(form[b])]
    /\ UNCHANGED <<lifecycle, ret, inviteForm, panel, usersPage, data>>

\* the Forgot your password? link
forgotPassword(b) ==
    /\ form[b].route = "/login"
    /\ form[b].mode = "login"
    /\ form' = [form EXCEPT ![b].mode = "forgot-password"]
    /\ UNCHANGED <<lifecycle, ret, inviteForm, panel, usersPage, data>>

handleForgotPassword(b) ==
    /\ form[b].route = "/login"
    /\ form[b].mode = "forgot-password"
    /\ ~form[b].isLoading
    /\ \E outcome \in {"ok", "error"} :
          /\ form' = [form EXCEPT ![b] =
                IF outcome = "ok"
                THEN [form[b] EXCEPT !.mode = "login", !.toast = "If an account exists"]
                ELSE [form[b] EXCEPT !.toast = "Failed to process your request"]]
          /\ ret' = Plain("resetPasswordForEmail", outcome)
    /\ UNCHANGED <<lifecycle, inviteForm, panel, usersPage, data>>

\* handleLoginSubmit in login mode, up to the return of signIn: the auth
\* provider either refuses or signs an account in, which sets the session of
\* the browser and raises the auth client's state change event
handleLoginSubmit(b) ==
    /\ form[b].route = "/login"
    /\ form[b].mode = "login"
    /\ ~form[b].isLoading
    /\ form[b].signingIn = NoSignIn
    /\ pend[b] = Idle
    /\ \/ /\ form' = [form EXCEPT ![b].toast = "An error occurred"]
          /\ ret' = Plain("signIn", "error")
       \/ \E a \in accounts :
          /\ form' = [form EXCEPT ![b].loginEmail = a.email,
                                  ![b].user = a.email,
                                  ![b].authEvent = TRUE,
                                  ![b].isLoading = TRUE,
                                  ![b].signingIn = a]
          /\ ret' = Plain("signIn", "user")
    /\ UNCHANGED <<lifecycle, inviteForm, panel, usersPage, data>>

\* handleLoginSubmit from the return of signIn: the account's
\* requires_password_setup sends the form, if it is still the one that
\* called, to set-password mode; otherwise navigate('/dashboard')
AfterSignIn(f, account) ==
    IF account.requires_password_setup
    THEN IF f.isLoading
         THEN [f EXCEPT !.mode = "set-password", !.via = "signIn",
                        !.toast = "You need to set a secure password before continuing",
                        !.isLoading = FALSE, !.signingIn = NoSignIn]
         ELSE [f EXCEPT !.signingIn = NoSignIn]
    ELSE Navigate([f EXCEPT !.toast = "Logged in successfully",
                            !.isLoading = FALSE, !.signingIn = NoSignIn],
                  "/dashboard")

handleLoginSubmitResume(b) ==
    /\ form[b].signingIn # NoSignIn
    /\ form' = [form EXCEPT ![b] = AfterSignIn(form[b], form[b].signingIn)]
    /\ UNCHANGED <<lifecycle, ret, inviteForm, panel, usersPage, data>>

\* App's onAuthStateChange callback: setAuthenticated(!!session), upon which
\* the route /login renders <Navigate to="/dashboard" />
onAuthStateChange(b) ==
    /\ form[b].authEvent
    /\ form' = [form EXCEPT ![b] =
          LET f == [form[b] EXCEPT !.authEvent = FALSE,
                                   !.authenticated = form[b].user # Null]
          IN IF f.authenticated /\ f.route = "/login"
             THEN Navigate(f, "/dashboard")
             ELSE f]
    /\ UNCHANGED <<lifecycle, ret, inviteForm, panel, usersPage, data>>

\* the invitation of a@x.com is open; b@x.com has registered with theirs
InitLogin ==
    /\ invitations =
          {NewInvitation(1, "a@x.com", <<"k">>, "admin", AdminId, 0, 0),
           [NewInvitation(2, "b@x.com", <<"m">>, "user", AdminId, 0, 0)
              EXCEPT !.used = TRUE]}
    /\ nextId = 3
    /\ now = 0
    /\ accounts = {Account("b@x.com", <<"m">>)}
    /\ pend = [b \in Sessions |-> Idle]
    /\ ret = NoCall
    /\ issued = {[id |-> 1, email |-> "a@x.com", role |-> "admin"],
                 [id |-> 2, email |-> "b@x.com", role |-> "user"]}
    /\ registered = {2}
    /\ marked = {2}
    /\ skew = 0
    /\ UiInit
    /\ DataInit

NextLogin ==
    \/ \E t \in LinkTokens \cup {<< >>} : openLogin(Browser, t)
    \/ \E t \in LinkTokens : searchChanged(Browser, t)
    \/ \E t \in GenTokens : verifyTokenResume(Browser, t)
    \/ backToLogin(Browser)
    \/ forgotPassword(Browser)
    \/ handleForgotPassword(Browser)
    \/ handleLoginSubmit(Browser)
    \/ handleLoginSubmitResume(Browser)
    \/ onAuthStateChange(Browser)
    \/ handlePasswordSubmit(Browser)
    \/ handlePasswordSubmitResume(Browser)

SpecLogin == InitLogin /\ [][NextLogin]_vars

----------------------------------------------------------------------------
(* The administrator's page: InvitationForm in one specification, beside    *)
(* deletions made from elsewhere and with a store clock that may be ahead   *)
(* of the client's, and InvitationList in another, over two invitations.    *)

\* `${window.location.origin}/login?token=${token}`
Link(token) == <<"/login?token=">> \o token

EmailFailed == "Invitation created but email failed to send"

\* onError of the mutation: if (error.code === '23505')
AfterCreateError(f, error) ==
    [f EXCEPT !.toast = IF error = UniqueViolation
                        THEN "This email has already been invited"
                        ELSE "Failed to send invitation"]

\* createInvitationMutation.mutate up to the return of createInvitation: on
\* success onSuccess starts to send the email, on failure onError runs; the
\* button is disabled while the mutation is pending
createInvitationMutation(email, role) ==
    /\ inviteForm.sending = NoSend
    /\ createInvitation(email, role)
    /\ inviteForm' =
          IF ret'.result = "success"
          THEN [inviteForm EXCEPT !.sending =
                   [email |-> email, role |-> role, token |-> ret'.token]]
          ELSE AfterCreateError(inviteForm, ret'.thrown)
    /\ UNCHANGED <<form, panel, usersPage, data>>

\* a faulty variant that shows the link only when the email was sent
AfterSendMutant(f, outcome) ==
    [invitationLink |-> IF outcome = "ok" THEN Link(f.sending.token)
                        ELSE f.invitationLink,
     toast |-> IF outcome = "ok" THEN "Invitation sent" ELSE EmailFailed,
     sending |-> NoSend]
\* onSuccess once sendInvitationEmail has returned or thrown: a toast either
\* way, then setInvitationLink(result.invitationLink)
AfterSend(f, outcome) ==
    [invitationLink |-> Link(f.sending.token),
     toast |-> IF outcome = "ok" THEN "Invitation sent" ELSE EmailFailed,
     sending |-> NoSend]

\* the rest of onSuccess: sendInvitationEmail invokes the send-invitation
\* function and throws when it fails; the table is not touched
sendInvitationEmail ==
    /\ inviteForm.sending # NoSend
    /\ \E outcome \in {"ok", "error"} :
        /\ ret' = Plain("sendInvitationEmail", outcome)
        /\ inviteForm' = AfterSend(inviteForm, outcome)
    /\ UNCHANGED <<invitations, nextId, now, accounts, pend, issued,
                   registered, marked, skew, form, panel, usersPage, data>>

\* InvitationList mounts: fetchInvitations
fetchInvitations ==
    /\ getInvitations
    /\ panel' = IF ret'.result = "list"
                THEN [panel EXCEPT !.invitations = ret'.rows]
                ELSE [panel EXCEPT !.toast = "Failed to load invitations"]
    /\ UNCHANGED <<form, inviteForm, usersPage, data>>

\* invitations.filter(inv => inv.id !== id)
Without(q, id) == SelectSeq(q, LAMBDA r : r.id # id)

\* the call of handleDeleteInvitation(id) made from a render that showed shown
Closure(id, shown) == [id |-> id, invitations |-> shown]

\* the delete button of a row shown, confirmed: handleDeleteInvitation up to
\* its await; the dialog closes and the other rows can be deleted meanwhile
handleDeleteInvitation(id) ==
    /\ \E i \in DOMAIN panel.invitations : panel.invitations[i].id = id
    /\ \A c \in panel.deleting : c.id # id
    /\ panel' = [panel EXCEPT !.deleting = @ \cup {Closure(id, panel.invitations)}]
    /\ UNCHANGED <<lifecycle, ret, form, inviteForm, usersPage, data>>

\* the panel once deleteInvitation has returned true or thrown:
\* setInvitations(invitations.filter(inv => inv.id !== id)) filters the rows
\* of the render the call was made from
AfterDelete(p, c, result) ==
    IF result = "true"
    THEN [p EXCEPT !.invitations = Without(c.invitations, c.id),
                   !.toast = "Invitation deleted",
                   !.deleted = @ \cup {c.id}]
    ELSE [p EXCEPT !.toast = "Failed to delete invitation"]

\* handleDeleteInvitation from the return of deleteInvitation
handleDeleteInvitationResume(c) ==
    /\ c \in panel.deleting
    /\ deleteInvitation(c.id)
    /\ panel' = AfterDelete([panel EXCEPT !.deleting = @ \ {c}], c, ret'.result)
    /\ UNCHANGED <<form, inviteForm, usersPage, data>>

InitAdmin ==
    /\ invitations = {}
    /\ nextId = 1
    /\ now = 0
    /\ accounts = {}
    /\ pend = [s \in {Min(Sessions)} |-> Idle]
    /\ ret = NoCall
    /\ issued = {}
    /\ registered = {}
    /\ marked = {}
    /\ skew \in Skews
    /\ UiInit
    /\ DataInit

NextAdmin ==
    \/ Tick /\ UNCHANGED <<ui, data>>
    \/ \E q \in Requests : createInvitationMutation(q[1], q[2])
    \/ sendInvitationEmail
    \/ \E id \in 1 .. MaxIds : deleteInvitation(id) /\ UNCHANGED <<ui, data>>

SpecAdmin == InitAdmin /\ [][NextAdmin]_vars

\* invitations have been created, one for each request
InitList ==
    /\ invitations =
          {NewInvitation(1, "a@x.com", <<"k">>, "admin", AdminId, 0, 0),
           NewInvitation(2, "b@x.com", <<"m">>, "user", AdminId, 0, 0)}
    /\ nextId = 3
    /\ now = 0
    /\ accounts = {}
    /\ pend = [s \in {Min(Sessions)} |-> Idle]
    /\ ret = NoCall
    /\ issued = {[id |-> 1, email |-> "a@x.com", role |-> "admin"],
                 [id |-> 2, email |-> "b@x.com", role |-> "user"]}
    /\ registered = {}
    /\ marked = {}
    /\ skew = 0
    /\ UiInit
    /\ DataInit

NextList ==
    \/ fetchInvitations
    \/ \E id \in 1 .. MaxIds : handleDeleteInvitation(id)
    \/ \E c \in panel.deleting : handleDeleteInvitationResume(c)

SpecList == InitList /\ [][NextList]_vars

----------------------------------------------------------------------------
(* The administrator's Users panel: the list of profiles and the dialog    *)
(* that edits the role of one of them.  The administrator signed in is      *)
(* AdminId; the deletion of users is left out.                              *)

\* USER_ROLES
Roles == {"admin", "user"}

\* what getCurrentUserId can return: the id of the user in the auth token of
\* local storage, or null when the item is missing, does not parse or holds
\* no user
StoredIds == {AdminId, Null}

\* update({ role: newRole }).eq('id', userId)
SetRole(rows, id, role) ==
    {IF r.id = id THEN [r EXCEPT !.role = role] ELSE r : r \in rows}

\* updateUserRole(id, role) was issued: how the store answered, and how the
\* fetchUsers that follows a success went
RoleUpdate(id, role, outcome, fetched) ==
    [op |-> "updateUserRole", token |-> << >>, queried |-> TRUE,
     outcome |-> outcome, result |-> IF outcome = "ok" THEN "profile" ELSE "throw",
     row |-> NoRow, clk |-> << >>, id |-> id, role |-> role, fetched |-> fetched]

\* const isCurrentUser = (userId) => userId === currentUserId
isCurrentUser(u, userId) == userId = u.currentUserId

\* the panel once fetchUsers has run: setUsers(data) and, if getCurrentUserId
\* returned an id, setCurrentUserId; a failed getUserProfiles is caught
AfterFetchUsers(u, outcome, rows, userId) ==
    IF outcome = "error"
    THEN [u EXCEPT !.toast = "Failed to load users"]
    ELSE [u EXCEPT !.users = rows,
                   !.currentUserId = IF userId # Null THEN userId ELSE @]

\* the panel mounts: fetchUsers
fetchUsers ==
    /\ \E outcome \in {"ok", "error"}, userId \in StoredIds :
          /\ usersPage' = AfterFetchUsers(usersPage, outcome, profiles, userId)
          /\ ret' = Plain("getUserProfiles", outcome)
    /\ UNCHANGED <<lifecycle, form, inviteForm, panel, data>>

\* the pencil button of a row shown; the dialog is modal
handleEditUser(user) ==
    /\ user \in usersPage.users
    /\ usersPage.editingUser = NoProfile
    /\ usersPage' = [usersPage EXCEPT !.editingUser = user,
                                       !.selectedRole = user.role]
    /\ UNCHANGED <<lifecycle, ret, form, inviteForm, panel, data>>

\* the role Select of the dialog, disabled for the current user
handleRoleChange(newRole) ==
    /\ usersPage.editingUser # NoProfile
    /\ ~isCurrentUser(usersPage, usersPage.editingUser.id)
    /\ usersPage' = [usersPage EXCEPT !.selectedRole = newRole]
    /\ UNCHANGED <<lifecycle, ret, form, inviteForm, panel, data>>

\* Cancel, or onOpenChange of the dialog
closeDialog ==
    /\ usersPage.editingUser # NoProfile
    /\ usersPage' = [usersPage EXCEPT !.editingUser = NoProfile,
                                       !.selectedRole = Null]
    /\ UNCHANGED <<lifecycle, ret, form, inviteForm, panel, data>>

\* disabled={!selectedRole || selectedRole === editingUser?.role ||
\*           isCurrentUser(editingUser?.id || '')}
SaveDisabled(u) ==
    \/ u.selectedRole = Null
    \/ u.selectedRole = u.editingUser.role
    \/ isCurrentUser(u, u.editingUser.id)

\* Save Changes: updateUserRole, then fetchUsers and the closing of the dialog
handleSave ==
    /\ usersPage.editingUser # NoProfile
    /\ ~SaveDisabled(usersPage)
    /\ LET id == usersPage.editingUser.id
           role == usersPage.selectedRole
       IN \E outcome \in {"ok", "error"}, fetched \in {"ok", "error"},
             userId \in StoredIds :
            IF outcome = "error"
            THEN /\ fetched = "ok"
                 /\ userId = Null
                 /\ usersPage' =
                       [usersPage EXCEPT !.toast = "Failed to update user role"]
                 /\ ret' = RoleUpdate(id, role, outcome, "none")
                 /\ profiles' = profiles
            ELSE /\ profiles' = SetRole(profiles, id, role)
                 /\ usersPage' =
                       [AfterFetchUsers(usersPage, fetched, profiles', userId)
                          EXCEPT !.toast = "User role updated successfully",
                                 !.editingUser = NoProfile,
                                 !.selectedRole = Null]
                 /\ ret' = RoleUpdate(id, role, outcome, fetched)
    /\ UNCHANGED <<lifecycle, form, inviteForm, panel, tasks>>

NextUsers ==
    \/ fetchUsers
    \/ \E user \in usersPage.users : handleEditUser(user)
    \/ \E newRole \in Roles : handleRoleChange(newRole)
    \/ closeDialog
    \/ handleSave

SpecUsers == Init /\ [][NextUsers]_vars

----------------------------------------------------------------------------
(* The tasks of the users: createTask and getTasks, called by whoever is    *)
(* signed in, over every assignment of roles to the two profiles.  The      *)
(* session is the same at the two getUser calls of one getTasks.            *)

\* who can call: nobody signed in, the first user, the second user
Callers == {NoUser, AdminId, OtherId}

\* a row of the tasks table
Task(id, owner) == [id |-> id, user_id |-> owner]

\* the user_profiles tables considered: each of the two users in either role,
\* and the second user without a profile
ProfileTables ==
    {{Profile(AdminId, "admin@x.com", ra), Profile(OtherId, "a@x.com", ro)}
        : ra \in Roles, ro \in Roles}
    \cup {{Profile(AdminId, "admin@x.com", "admin")}}

\* getUserProfile: null with no user, on an error and when single() finds no
\* row, else the profile
getUserProfile(rows, user, outcome) ==
    IF user = NoUser \/ outcome = "error" \/ ~\E r \in rows : r.id = user
    THEN NoProfile
    ELSE CHOOSE r \in rows : r.id = user

\* getUserRole: profile?.role
getUserRole(rows, user, outcome) ==
    IF getUserProfile(rows, user, outcome) = NoProfile THEN Null
    ELSE getUserProfile(rows, user, outcome).role

\* isAdmin: role === 'admin'
isAdmin(rows, user, outcome) == getUserRole(rows, user, outcome) = "admin"

\* a faulty variant that leaves the filter out
OwnTasksMutant(rows, user) == rows
\* select('*').eq('user_id', user.id)
OwnTasks(rows, user) == {t \in rows : t.user_id = user}

\* what getTasks returned to a caller: the response of the query with its rows
\* (taken as a set: their order is not looked at), or that it threw
TaskListing(caller, lookup, outcome, result, rows) ==
    [op |-> "getTasks", token |-> << >>, queried |-> caller # NoUser,
     outcome |-> outcome, result |-> result, row |-> NoRow, clk |-> << >>,
     caller |-> caller, lookup |-> lookup, rows |-> rows]

getTasks(caller) ==
    /\ \E lookup \in {"ok", "error"}, outcome \in {"ok", "error"} :
          IF caller = NoUser
          THEN /\ lookup = "ok" /\ outcome = "ok"
               /\ ret' = TaskListing(caller, "none", "none", "throw", {})
          ELSE ret' = TaskListing(caller, lookup, outcome, "response",
                         IF outcome = "error" THEN {}
                         ELSE IF isAdmin(profiles, caller, lookup) THEN tasks
                         ELSE OwnTasks(tasks, caller))
    /\ UNCHANGED <<lifecycle, ui, data>>

\* createTask: insert with user_id: user.id
createTask(caller) ==
    /\ IF caller = NoUser
       THEN /\ ret' = Plain("createTask", "throw")
            /\ tasks' = tasks
       ELSE /\ Cardinality(tasks) < MaxRows
            /\ tasks' = tasks \cup {Task(Cardinality(tasks) + 1, caller)}
            /\ ret' = Plain("createTask", "response")
    /\ UNCHANGED <<lifecycle, ui, profiles>>

InitTasks ==
    /\ invitations = {}
    /\ nextId = 1
    /\ now = 0
    /\ accounts = {}
    /\ pend = [s \in {Min(Sessions)} |-> Idle]
    /\ ret = NoCall
    /\ issued = {}
    /\ registered = {}
    /\ marked = {}
    /\ skew = 0
    /\ UiInit
    /\ profiles \in ProfileTables
    /\ tasks = {}

NextTasks ==
    \/ \E caller \in Callers : createTask(caller)
    \/ \E caller \in Callers : getTasks(caller)

SpecTasks == InitTasks /\ [][NextTasks]_vars

----------------------------------------------------------------------------
(* The resolution of verifyInvitationToken over any table contents: the   *)
(* store holds up to MaxRows rows, which may share a token, and the only  *)
(* operations are the passing of time and the verification itself.        *)

RowChoices ==
    {StoredRow(0, q[1], t, q[2], AdminId, c + InvitationDays, c)
        : q \in Requests, t \in GenTokens, c \in {0 - InvitationDays, 0}}

Tables ==
    UNION {{ {[f[i] EXCEPT !.id = i, !.used = u[i]] : i \in 1 .. n}
               : f \in [1 .. n -> RowChoices], u \in [1 .. n -> BOOLEAN]}
             : n \in 0 .. MaxRows}

InitRows ==
    /\ invitations \in Tables
    /\ nextId = Cardinality(invitations) + 1
    /\ now = 0
    /\ accounts = {}
    /\ pend = [s \in {Min(Sessions)} |-> Idle]
    /\ ret = NoCall
    /\ issued = {[id |-> r.id, email |-> r.email, role |-> r.role] : r \in invitations}
    /\ marked = {r.id : r \in {x \in invitations : x.used}}
    /\ registered = marked
    /\ skew = 0
    /\ UiInit
    /\ DataInit

NextRows ==
    \/ Tick /\ UNCHANGED <<ui, data>>
    \/ \E t \in PresentedTokens : verifyInvitationToken(t) /\ UNCHANGED <<ui, data>>

SpecRows == InitRows /\ [][NextRows]_vars

----------------------------------------------------------------------------
(* verifyInvitationToken under a clock that moves, forwards or backwards,  *)
(* between its readings, over the tables of one or two rows carrying the   *)
(* token k.                                                                *)

\* by how much the clock may differ from one reading to the next
Drift == {0 - InvitationDays, 0, InvitationDays}

ClockRows ==
    {[r EXCEPT !.used = u] : r \in {x \in RowChoices : x.token = <<"k">>},
                             u \in BOOLEAN}

ClockTables ==
    {{}} \cup {{[r EXCEPT !.id = 1]} : r \in ClockRows}
         \cup {{[r EXCEPT !.id = 1], [q EXCEPT !.id = 2]}
                  : r \in ClockRows, q \in ClockRows}

InitClock ==
    /\ invitations \in ClockTables
    /\ nextId = Cardinality(invitations) + 1
    /\ now = 0
    /\ accounts = {}
    /\ pend = [s \in {Min(Sessions)} |-> Idle]
    /\ ret = NoCall
    /\ issued = {[id |-> r.id, email |-> r.email, role |-> r.role] : r \in invitations}
    /\ marked = {r.id : r \in {x \in invitations : x.used}}
    /\ registered = marked
    /\ skew = 0
    /\ UiInit
    /\ DataInit

NextClock ==
    \/ Tick /\ UNCHANGED <<ui, data>>
    \/ \E t \in PresentedTokens :
           verifyInvitationTokenDuring(t, Drift) /\ UNCHANGED <<ui, data>>

SpecClock == InitClock /\ [][NextClock]_vars

----------------------------------------------------------------------------
(* The claims.  ret is the return value of the last call; no operation has *)
(* run since, so the table is the one the call saw.                        *)

\* a verification whose query delivered its rows
Verified == ret.op = "verify" /\ ret.outcome = "ok"

\* the rows carrying the presented token
Matched == {r \in invitations : r.token = ret.token}

\* the clock reading the verification compared expires_at with
ReadAt == ret.clk[1]

IssuedFor(id) == CHOOSE h \in issued : h.id = id

\* C1 as stated (read for an invitation that still exists and, before the
\* registration, has not passed its expires_at): a verification of its token
\* returns the record with the email and role it was created with until a
\* signUp with its email and token has created an account, and already_used
\* ever after.
C1_Original ==
    Verified =>
        \A r \in Matched :
            /\ (r.id \notin registered /\ r.id \notin marked
                  /\ ~(r.expires_at < ReadAt)) =>
                   /\ ret.result = "success"
                   /\ ret.row.email = IssuedFor(r.id).email
                   /\ ret.row.role = IssuedFor(r.id).role
            /\ r.id \in registered => ret.result = "already_used"

\* C1 amended: while the invitation exists, a verification of its token returns
\* the record with the email and role it was created with as long as its used
\* flag is unset and expires_at has not passed, and returns already_used once a
\* signUp with that token has created its account and its update of the row
\* has been applied.
C1_Amended ==
    Verified =>
        \A r \in Matched :
            /\ (r.id \notin marked /\ ~(r.expires_at < ReadAt)) =>
                   /\ ret.result = "success"
                   /\ ret.row.email = IssuedFor(r.id).email
                   /\ ret.row.role = IssuedFor(r.id).role
            /\ r.id \in marked => ret.result = "already_used"

\* C1 witness: an invitation marked by a completed signUp is verified and
\* answered already_used
C1_Witness ==
    /\ Verified
    /\ ret.result = "already_used"
    /\ \E r \in Matched : r.id \in marked /\ r.email = "a@x.com" /\ r.role = "admin"

\* C2: when the one invitation carrying the token has used = true, the
\* verification returns already_used, whether or not it is also past expiry.
C2_UsedPrecedesExpiry ==
    Verified =>
        \A r \in Matched : (Matched = {r} /\ r.used) => ret.result = "already_used"

\* C2 witness: a verification of a row that is both used and past expiry, answered already_used
C2_Witness ==
    /\ Verified
    /\ ret.result = "already_used"
    /\ \E r \in Matched : Matched = {r} /\ r.used /\ r.expires_at < ReadAt

\* C3: when the one invitation carrying the token is unused and the current
\* time is later than its expires_at, the verification returns expired (and so
\* never not_found).
C3_ExpiredNotNotFound ==
    Verified =>
        \A r \in Matched :
            (Matched = {r} /\ ~r.used /\ r.expires_at < ReadAt) =>
                ret.result = "expired"

\* C3 witness: a verification of an unused row past its expiry, answered expired
C3_Witness ==
    /\ Verified
    /\ ret.result = "expired"
    /\ \E r \in Matched : Matched = {r} /\ ~r.used /\ r.expires_at < ReadAt

\* C4 as stated: for a token matching a single row, the verification succeeds
\* if and only if the row is unused and the current time is strictly less than
\* expires_at; at the instant expires_at itself the result is expired.
C4_ValidIffStrictlyBefore ==
    Verified =>
        \A r \in Matched :
            Matched = {r} =>
                /\ ret.result = "success" <=> (~r.used /\ ReadAt < r.expires_at)
                /\ (~r.used /\ ReadAt = r.expires_at) => ret.result = "expired"

\* C5: a non-empty token that no row carries is answered not_found, whatever
\* other rows the table holds (the query, if one is made, having succeeded).
C5_UnknownTokenNotFound ==
    (/\ ret.op = "verify"
     /\ ret.outcome \in {"ok", "none"}
     /\ ret.token # << >>
     /\ Matched = {}) => ret.result = "not_found"

\* C5 witness: a padded token no row carries is verified beside an unused row and answered not_found
C5_Witness ==
    /\ Verified
    /\ ret.token = <<" ", "k">>
    /\ Matched = {}
    /\ \E r \in invitations : r.token = <<"k">> /\ ~r.used
    /\ ret.result = "not_found"

\* C6: the verification of the token of an unused, unexpired invitation returns
\* that invitation's row, with the email and role createInvitation was given,
\* whatever other creations, verifications, deletions and registrations have
\* happened.
C6_EmailRoleUnchanged ==
    Verified =>
        \A r \in Matched :
            (~r.used /\ ReadAt < r.expires_at) =>
                /\ ret.result = "success"
                /\ ret.row.id = r.id
                /\ ret.row.token = ret.token
                /\ ret.row.email = IssuedFor(r.id).email
                /\ ret.row.role = IssuedFor(r.id).role

\* C6 witness: the second invitation is verified and returned after the first one has been consumed
C6_Witness ==
    /\ Verified
    /\ ret.result = "success"
    /\ ret.row.role = "admin"
    /\ ret.row.id = 2
    /\ \E o \in invitations : o.id # ret.row.id /\ o.used

\* whether a row counts as valid, used or expired in the verification returned
RowValid(r) == ~r.used /\ ~(r.expires_at < ReadAt)
RowPastExpiry(r) == r.expires_at < ReadAt

\* C7 as stated (read for rows that are not at the very instant of their
\* expires_at): over the rows sharing the token the checks apply in the order
\* already_used, expired, success: a used row makes the result already_used
\* even beside a valid row, otherwise a row past expiry makes it expired.
C7_Original ==
    (Verified /\ Matched # {} /\ \A r \in Matched : r.expires_at # ReadAt) =>
        ret.result = IF \E r \in Matched : r.used THEN "already_used"
                     ELSE IF \E r \in Matched : RowPastExpiry(r) THEN "expired"
                     ELSE "success"

\* C7 amended: over the rows sharing the token the checks apply in the order
\* success, already_used, expired: a valid row (unused, not past expiry) is
\* returned even beside a used or an expired row; with no valid row a used row
\* makes the result already_used; otherwise the result is expired.
C7_Amended ==
    (Verified /\ Matched # {}) =>
        /\ ret.result = IF \E r \in Matched : RowValid(r) THEN "success"
                        ELSE IF \E r \in Matched : r.used THEN "already_used"
                        ELSE "expired"
        /\ ret.result = "success" => (ret.row \in Matched /\ RowValid(ret.row))

\* C7 witness: a valid row is returned although a used row shares its token
C7_Witness ==
    /\ Verified
    /\ ret.result = "success"
    /\ \E r \in Matched : r.used
    /\ \E r \in Matched : r = ret.row /\ ~r.used /\ ReadAt < r.expires_at

\* C8: a verification leaves every row of the table as it was, and a
\* verification repeated at once, with the query answering alike, returns what
\* the first one returned.
C8_VerifyReadOnly ==
    [][ret'.op = "verify" =>
          /\ invitations' = invitations
          /\ (ret.op = "verify" /\ ret'.token = ret.token
                /\ ret'.outcome = ret.outcome) =>
                 (ret'.result = ret.result /\ ret'.row = ret.row)]_vars

\* C8 witness: a verification has returned an unused row, which the table still holds unchanged
C8_Witness ==
    /\ Verified
    /\ ret.result = "success"
    /\ \E r \in Matched : ~r.used /\ ret.row = r

\* C9: an empty or whitespace-only token is answered not_found without a query
\* to the store.
C9_EmptyTokenNoQuery ==
    (/\ ret.op = "verify"
     /\ \A i \in 1 .. Len(ret.token) : ret.token[i] = " ") =>
        (ret.result = "not_found" /\ ~ret.queried)

\* C9 witness: a whitespace-only token is answered not_found, no query made, with rows in the table
C9_Witness ==
    /\ ret.op = "verify"
    /\ ret.token = <<" ">>
    /\ invitations # {}
    /\ ret.result = "not_found"
    /\ ~ret.queried

\* C10 as stated: a failed query, be it an error result or a raised exception,
\* is answered database_error.
C10_Original ==
    (ret.op = "verify" /\ ret.outcome \in {"error", "throw"}) =>
        ret.result = "database_error"

\* C10 amended: a query that returns an error result is answered
\* database_error and a query that raises an exception is answered
\* unexpected_error; neither is answered not_found, expired, already_used or
\* with an invitation.
C10_Amended ==
    /\ (ret.op = "verify" /\ ret.outcome = "error") =>
           (ret.result = "database_error" /\ ret.row = NoRow)
    /\ (ret.op = "verify" /\ ret.outcome = "throw") =>
           (ret.result = "unexpected_error" /\ ret.row = NoRow)

\* C10 witness: the query for the token of an unused invitation raised an exception
C10_Witness ==
    /\ ret.op = "verify"
    /\ ret.outcome = "throw"
    /\ ret.result = "unexpected_error"
    /\ \E r \in Matched : ~r.used

\* the call of signUp whose create-account request returned an error or no user
CreateAccountFailed(r) ==
    r.op \in {"signUp", "signUpCreateAccount"} /\ r.result \in {"error", "nouser"}

\* C11: the update setting used = true is issued only once the create-account
\* call of the same signUp has returned a user; when that call returns an error
\* or no user, no update is issued or left pending and every row keeps its
\* used flag.
C11_UpdateOnlyAfterAccount ==
    [][/\ CreateAccountFailed(ret') => (invitations' = invitations /\ pend' = pend)
       /\ (\E r \in invitations : \E q \in invitations' :
               q.id = r.id /\ ~r.used /\ q.used) =>
              \E s \in DOMAIN pend :
                  /\ pend[s] # Idle
                  /\ pend'[s] = Idle
                  /\ \E a \in accounts : a.email = pend[s][1]]_vars

\* C11 witness: a signUp whose account creation failed has returned and the
\* invitation for that email is still unused, so a retry can consume it
C11_Witness ==
    /\ ret.op = "signUp"
    /\ ret.result = "error"
    /\ accounts = {}
    /\ \A s \in DOMAIN pend : pend[s] = Idle
    /\ \E r \in invitations : r.email = "a@x.com" /\ r.token = <<"k">> /\ ~r.used

\* C12: when the update of a signUp whose account was created fails, by an
\* error result or by an exception, signUp returns the response of the
\* create-account call, and the form that submitted it shows the success
\* message and goes back to login mode.
C12_UpdateFailureNotShown ==
    [][\A b \in DOMAIN pend :
          (pend[b] # Idle /\ pend'[b] = Idle /\ ret'.outcome \in {"error", "throw"}) =>
              /\ ret'.op = "signUp"
              /\ ret'.result = "user"
              /\ form'[b].toast = AccountCreated
              /\ form'[b].mode = "login"]_vars

\* C12 witness: a form is back in login mode under the success message, its
\* signUp having created the account while the update threw and left the
\* invitation unused
C12_Witness ==
    /\ ret.op = "signUp"
    /\ ret.outcome = "throw"
    /\ \E r \in invitations : r.token = ret.token /\ ~r.used
    /\ \E a \in accounts : a.token = ret.token
    /\ \E b \in Sessions : form[b].mode = "login" /\ form[b].toast = AccountCreated

\* C13: no step of createInvitation, verifyInvitationToken, signUp or
\* deleteInvitation sets the used flag of an existing row back to false; the
\* update of a further signUp with the token of a used invitation leaves it
\* used.
C13_UsedNeverReverts ==
    [][\A r \in invitations : \A q \in invitations' :
           (q.id = r.id /\ r.used) => q.used]_vars

\* C13 witness: the update of a signUp was applied to a row that was used
\* already, and the row is used
C13_Witness ==
    /\ ret.op = "signUp"
    /\ ret.outcome = "ok"
    /\ ret.row # NoRow
    /\ ret.row.used
    /\ \E r \in invitations : r.id = ret.row.id /\ r.used

\* C14: no two rows of the invitations table carry the same token.
C14_TokensDistinct ==
    \A r \in invitations : \A q \in invitations : r.token = q.token => r.id = q.id

\* C14 witness: createInvitation generated the token of an existing row, the
\* table having room for another row, and the insert was refused
C14_Witness ==
    /\ ret.op = "createInvitation"
    /\ ret.outcome = "error"
    /\ Cardinality(invitations) = 1
    /\ nextId <= MaxIds
    /\ \E r \in invitations : r.token = ret.token

\* C15: whatever the interleaving of the registrations of the browser sessions
\* that opened the link of one invitation, no account is created for a token
\* that has an account already: at most one account carries the token.
C15_OneAccountPerToken ==
    [][/\ \A b \in DOMAIN pend :
             (pend[b] = Idle /\ pend'[b] # Idle) =>
                 \A a \in accounts : a.token # pend'[b][2]
       /\ \A t \in GenTokens :
             Cardinality({a \in accounts' : a.token = t}) <= 1]_vars

\* C15 witness: two sessions hold the token, both having passed verification
\* before the invitation was consumed; the first has registered, the second's
\* create-account call was refused
C15_Witness ==
    /\ form[1].toast = AccountCreated
    /\ form[2].invitationToken = <<"k">>
    /\ form[2].mode = "set-password"
    /\ form[2].toast = "An error occurred"
    /\ \E r \in invitations : r.token = <<"k">> /\ r.used
    /\ Cardinality({a \in accounts : a.token = <<"k">>}) = 1

\* C16 as stated: every row createInvitation stored has expires_at equal to
\* its created_at plus exactly 7 days.
C16_ExpiresSevenDaysAfterCreation ==
    \A r \in invitations : r.expires_at = r.created_at + InvitationDays

\* a deleteInvitation that returned true
Deleted(r) == r.op = "deleteInvitation" /\ r.result = "true"

\* the rows of a list
Range(q) == {q[i] : i \in DOMAIN q}

\* C17: once deleteInvitation(id) has returned true, no row has that id (ids
\* are not handed out again), getInvitations returns the rows of the table and
\* so not that row, and a verification of the deleted row's token that follows
\* returns not_found, whether the row was unused, used or expired.
C17_DeletedIsGone ==
    [][/\ Deleted(ret') => \A r \in invitations' : r.id # ret'.id
       /\ (ret'.op = "getInvitations" /\ ret'.outcome = "ok") =>
              /\ Range(ret'.rows) = invitations'
              /\ Deleted(ret) => \A r \in Range(ret'.rows) : r.id # ret.id
       /\ (Deleted(ret) /\ ret.row # NoRow /\ ret'.op = "verify"
              /\ ret'.outcome = "ok" /\ ret'.token = ret.row.token) =>
              ret'.result = "not_found"]_vars

\* C17 witness: of two invitations created one has been deleted, and
\* getInvitations has returned the other one alone
C17_Witness ==
    /\ ret.op = "getInvitations"
    /\ ret.outcome = "ok"
    /\ nextId = 3
    /\ Len(ret.rows) = 1
    /\ invitations = {ret.rows[1]}

\* C18 as stated: a deleteInvitation whose request the store accepted reports
\* not_found when no row had the id, and success only when a row was removed.
C18_DeleteReportsNotFound ==
    (ret.op = "deleteInvitation" /\ ret.outcome = "ok") =>
        /\ ret.row = NoRow => ret.result = "not_found"
        /\ ret.result = "true" => ret.row # NoRow

\* C19 as stated: when its query returns an error, getInvitations surfaces the
\* failure to its caller instead of returning a list.
C19_ListFailureSurfaced ==
    (ret.op = "getInvitations" /\ ret.outcome = "error") =>
        (ret.result = "throw" /\ ret # Listing("error", "list", << >>))

\* C20: the step in which sendInvitationEmail returns or fails leaves the
\* table as it is, so that the invitation just created stays stored and
\* unused, and the form shows the link of that invitation, with the failure in
\* a toast when the email was not sent.
C20_EmailFailureKeepsInvitation ==
    [][(inviteForm.sending # NoSend /\ inviteForm'.sending = NoSend) =>
          /\ invitations' = invitations
          /\ inviteForm'.invitationLink = Link(inviteForm.sending.token)
          /\ ret'.result = "error" => inviteForm'.toast = EmailFailed]_vars

\* C20 witness: the email of an invitation failed to send; its row is stored
\* and unused, and the form shows its link
C20_Witness ==
    /\ ret.op = "sendInvitationEmail"
    /\ ret.result = "error"
    /\ inviteForm.toast = EmailFailed
    /\ inviteForm.invitationLink = Link(<<"k">>)
    /\ \E r \in invitations : r.token = <<"k">> /\ ~r.used /\ r.email = "a@x.com"

\* C21: a createInvitation called with no user authenticated throws its
\* authorization error without asking the store, and one whose insert the store
\* refused throws the very error the store returned; in both cases no row is
\* inserted, no id is used up and nothing (so no link) is returned.
C21_CreateFailsWithoutInsert ==
    [][(ret'.op = "createInvitation" /\ ret'.outcome # "ok") =>
          /\ invitations' = invitations
          /\ nextId' = nextId
          /\ ret'.result = "throw"
          /\ ret'.row = NoRow
          /\ ret'.outcome = "none" =>
                 (~ret'.queried /\ ret'.thrown = NotAuthenticated)
          /\ ret'.outcome = "error" =>
                 (ret'.thrown = ret'.error
                    /\ ret'.error \in InsertErrors(invitations, ret'.token))]_vars

\* C21 witness: the insert of a second invitation was refused with the unique
\* violation, which the caller caught, and the table holds the first one alone
C21_Witness ==
    /\ ret.op = "createInvitation"
    /\ ret.outcome = "error"
    /\ ret.thrown = UniqueViolation
    /\ Cardinality(invitations) = 1
    /\ nextId = 2

\* C22 as stated: in no state of the Users panel, the one in which the current
\* user's id could not be read from local storage included, has updateUserRole
\* been issued with the id of the user signed in.
C22_NoOwnRoleChange ==
    ret.op = "updateUserRole" => ret.id # AdminId

\* the role the caller of the getTasks returned has in user_profiles, if any
CallerRole ==
    IF \E r \in profiles : r.id = ret.caller
    THEN (CHOOSE r \in profiles : r.id = ret.caller).role
    ELSE Null

\* C23: getTasks returns to a caller whose role is not admin, or whose profile
\* lookup failed, only tasks whose user_id is the caller's id (all of them when
\* the query succeeds); it returns a task of another owner only to a caller
\* whose role is admin, and then every task; with no user authenticated it
\* throws and returns no task.
C23_TasksByRole ==
    ret.op = "getTasks" =>
        /\ ret.caller = NoUser => (ret.result = "throw" /\ ret.rows = {})
        /\ (CallerRole # "admin" \/ ret.lookup # "ok") =>
               /\ \A t \in ret.rows : t.user_id = ret.caller
               /\ (ret.caller # NoUser /\ ret.outcome = "ok") =>
                      ret.rows = {t \in tasks : t.user_id = ret.caller}
        /\ (\E t \in ret.rows : t.user_id # ret.caller) =>
               (CallerRole = "admin" /\ ret.rows = tasks)
        /\ (CallerRole = "admin" /\ ret.lookup = "ok" /\ ret.outcome = "ok") =>
               ret.rows = tasks

\* C23 witness: the second user, whose role is user, has got their own task
\* and not the one of the first user
C23_Witness ==
    /\ ret.op = "getTasks"
    /\ ret.caller = OtherId
    /\ CallerRole = "user"
    /\ ret.rows = {t \in tasks : t.user_id = OtherId}
    /\ ret.rows # {}
    /\ \E t \in tasks : t.user_id = AdminId

\* C24 as stated: a step that creates an account carrying an invitation token
\* is taken only while that token is valid, a row with it existing that is
\* unused and not expired at that moment, whatever happened since the form
\* verified the token.
C24_ReverifiedAtWrite ==
    [][\A a \in accounts' \ accounts :
          a.token # << >> =>
              \E r \in invitations :
                  r.token = a.token /\ ~isUsed(r) /\ ~isExpired(r, now)]_vars

\* the rows of a table that a step changed, inserted or removed, by id
Touched(before, after) ==
    {r.id : r \in (before \ after) \cup (after \ before)}

\* C25: every step touches at most one row of the invitations table; a row
\* that exists before and after a step keeps its email, role, token,
\* created_by, created_at and expires_at; the update of a signUp changes
\* nothing but the used flag of the one row carrying its token.
C25_SingleRowMutations ==
    [][/\ Cardinality(Touched(invitations, invitations')) <= 1
       /\ \A r \in invitations : \A q \in invitations' :
              q.id = r.id => [q EXCEPT !.used = r.used] = r
       /\ \A s \in DOMAIN pend :
              (pend[s] # Idle /\ pend'[s] = Idle) =>
                  \A r \in invitations :
                      r.token # pend[s][2] => r \in invitations']_vars

\* C25 witness: the update of a signUp has marked one of two invitations, and
\* the other one, with another token, is unused
C25_Witness ==
    /\ ret.op = "signUp"
    /\ ret.outcome = "ok"
    /\ \E r \in invitations : r.token = ret.token /\ r.used
    /\ \E r \in invitations : r.token # ret.token /\ ~r.used

\* the step is a call of signUp by the form of the browser followed
SignUpInvoked ==
    /\ pend[Browser] = Idle
    /\ ret'.op \in {"signUp", "signUpCreateAccount"}
    /\ (ret' # ret \/ pend' # pend)

\* C26: whatever the order of the responses of the verifications in flight,
\* of failed verifications and of Back to login clicks, the form holds an
\* invitationToken only if a verification of exactly that token succeeded in
\* this form instance and returned, as the email of an invitation carrying
\* the token, the invitationEmail the form holds; and signUp is called only
\* while the form holds a token, and with that token and that email.
C26_TokenOnlyFromVerification ==
    [][LET f == form[Browser]
           g == form'[Browser]
       IN /\ g.invitationToken # NoToken =>
                /\ <<g.invitationToken, g.invitationEmail>> \in g.verified
                /\ \E r \in invitations' :
                       r.token = g.invitationToken /\ r.email = g.invitationEmail
          /\ SignUpInvoked =>
                /\ f.invitationToken # NoToken
                /\ pend'[Browser] # Idle =>
                       pend'[Browser] = <<f.invitationEmail, f.invitationToken>>
                /\ \A a \in accounts' \ accounts :
                       a.token = f.invitationToken /\ a.email = f.invitationEmail]_vars

\* C26 witness: a verification of the used token m is still in flight beside
\* the one of k that succeeded, and the form has called signUp with k and the
\* email of its invitation
C26_Witness ==
    /\ form[Browser].invitationToken = <<"k">>
    /\ form[Browser].verified = {<<<<"k">>, "a@x.com">>}
    /\ form[Browser].verifying = {<<"m">>}
    /\ pend[Browser] = <<"a@x.com", <<"k">>>>

\* C27 as stated: while the form is in set-password mode and a sign-in that
\* returned requires_password_setup put it there, no step calls signUp; a
\* submission of the password form calls updatePasswordAfterInvitation.
C27_PasswordUpdateNotSignUp ==
    [][(form[Browser].mode = "set-password" /\ form[Browser].via = "signIn") =>
          ~SignUpInvoked]_vars

\* C28 as stated: while the user signed in has requires_password_setup set,
\* the browser is not shown the dashboard, in whichever order the response of
\* the sign-in and the auth state change reach AuthForm and App.
C28_NoDashboardBeforePasswordSetup ==
    LET f == form[Browser]
    IN (f.user # Null
          /\ \E a \in accounts : a.email = f.user /\ a.requires_password_setup) =>
            f.route # "/dashboard"

\* C29 as stated: whatever the interleaving of the deletions requested from
\* the list and of their responses, the list shows no invitation whose
\* deletion has succeeded.
C29_DeletedNotShown ==
    \A i \in DOMAIN panel.invitations :
        panel.invitations[i].id \notin panel.deleted

\* the clock did not go backwards during the verification returned
NonDecreasing(clk) == \A i \in 1 .. Len(clk) - 1 : clk[i] <= clk[i + 1]

\* C30: a verification whose query returned at least one row, and during
\* which the clock did not go backwards, returns a valid invitation,
\* already_used or expired, never invalid; every result of such a
\* verification is one of success, not_found, already_used, expired,
\* database_error and unexpected_error.
C30_InvalidUnreachable ==
    (ret.op = "verify" /\ NonDecreasing(ret.clk)) =>
        /\ ret.result \in {"success", "not_found", "already_used", "expired",
                           "database_error", "unexpected_error"}
        /\ (ret.outcome = "ok" /\ Matched # {}) =>
               /\ ret.result \in {"success", "already_used", "expired"}
               /\ ret.result = "success" => ret.row \in Matched

\* C30 witness: two unused rows were both past expiry at the readings of the
\* first pass, the clock moved on before the second pass, and the
\* verification returned expired
C30_Witness ==
    /\ Verified
    /\ Cardinality(Matched) = 2
    /\ \A r \in Matched : ~r.used
    /\ NonDecreasing(ret.clk)
    /\ ret.clk[1] < ret.clk[Len(ret.clk)]
    /\ ret.result = "expired"

====
